---- MODULE Spec2Model ----
(***************************************************************************)
(* A model of DataSplice's evidence-shaping core:                          *)
(*   backend/ingestion/chunking.py  (Chunk.get_id, estimate_tokens,        *)
(*                                   chunk_text)                           *)
(*   backend/retrieval/fusion.py    (cluster_chunks, deduplicate_chunks,   *)
(*                                   cap_chunks_per_cluster,               *)
(*                                   fuse_retrieved_chunks)                *)
(*   backend/synthesis/confidence.py (calculate_confidence)                *)
(*   backend/ingestion/chunking.py  (chunk_documents)                      *)
(*   backend/synthesis/llm_summarizer.py (extract_flat_citations)          *)
(*   backend/ingestion/embedding.py (embed_texts)                          *)
(* A Python str is a sequence of one-character strings.  The characters    *)
(* are taken from the classes the code's regular expressions and string    *)
(* methods tell apart: a lower-case letter, an upper-case letter [A-Z],    *)
(* sentence punctuation [.!?], a blank, a newline, '_' and '/'.            *)
(***************************************************************************)
EXTENDS Integers, Sequences, FiniteSets, TLC

VARIABLES
    \* ---- chunk_text (chunking.py:79-229) ----
    text,           \* argument text
    file_name,      \* argument file_name
    page_num,       \* argument page_num
    chunk_size,     \* argument chunk_size  (0 stands for None / 0: both falsy)
    chunk_overlap,  \* argument chunk_overlap (0 stands for None / 0)
    pc,             \* position in chunk_text: "start", "loop", "done"
    sentences,      \* the segments the for loop has not visited yet
    current_chunk,  \* local current_chunk (the running buffer)
    chunk_index,    \* local chunk_index
    chunks,         \* local chunks; the returned list once pc = "done"
    seed_words,     \* history: how many leading words of current_chunk were
                    \* copied from the previous chunk by the overlap seeding
    settings_CHUNK_SIZE,    \* settings.CHUNK_SIZE, read from the environment
    settings_CHUNK_OVERLAP, \* settings.CHUNK_OVERLAP, read from the environment
    last_flush,     \* history: <<>>, or <<flushed buffer, segment, new buffer>>
                    \* of the latest flush of lines 144-180
    \* ---- chunk_documents (chunking.py:232-254) ----
    pages,          \* argument pages, each a record [page_num, text]
    page_idx,       \* how many pages the for loop has visited
    all_chunks,     \* local all_chunks; the returned list once docPc = "done"
    docPc,          \* "loop", "page" while chunk_text runs on a page, "done"
    \* ---- Chunk.get_id (chunking.py:30-44) ----
    idA, idB,       \* two (file, page, chunk_index) triples
    idOut,          \* <<get_id of idA, get_id of idB>> once computed
    \* ---- estimate_tokens (chunking.py:58-76) ----
    tokText,        \* argument text
    tokOut,         \* the returned estimate, -1 before the call
    \* ---- cluster_chunks (fusion.py:17-86) and fuse_retrieved_chunks
    \* ---- (fusion.py:184-219), which share their arguments ----
    fChunks,        \* argument chunks: the chunks' embeddings, <<>> for a
                    \* chunk with no embedding or an empty one
    fN,             \* argument n_clusters (0 stands for None / 0)
    max_per_cluster,\* argument max_per_cluster of fuse_retrieved_chunks
    fPc,            \* cluster_chunks: "start", then "clustered" or "raised";
                    \* fuse_retrieved_chunks: "fuse", "fuse_clustered",
                    \* "fuse_deduplicated", then "fused" or "raised"
    clustered,      \* the mapping cluster_chunks returned: cluster id ->
                    \* list of chunks, a chunk being named by its position
                    \* in fChunks
    kmeans,         \* history: what became of the k-means step of lines
                    \* 61-71: "not_run", "labelled" or "failed"
    deduplicated,   \* fuse_retrieved_chunks: the mapping after line 213
    capped,         \* fuse_retrieved_chunks: the returned mapping
    \* ---- deduplicate_chunks (fusion.py:89-159) ----
    dChunks,        \* argument chunks: the chunks' embeddings
    dThreshold,     \* argument threshold, the fraction <<num, den>>
    dPc,            \* "start", "deduped"
    deduped,        \* the returned list, chunks named by position in dChunks
    \* ---- calculate_confidence (confidence.py:73-131) ----
    subtopics,      \* len(response.get("subtopics", []))
    limitations,    \* whether response.get("limitations") is truthy
    citations_flat, \* argument citations_flat: the "file" of each citation,
                    \* "" for a citation with no file or an empty one
    confidence,     \* the returned score in millionths, -1 before the call
    \* ---- extract_flat_citations (llm_summarizer.py:239-263) ----
    cResponse,      \* response["subtopics"]: each subtopic's list of citations
    cPc,            \* "start", "extracted"
    cFlat,          \* the returned citations_flat
    \* ---- embed_texts (embedding.py:44-184) ----
    eTexts,         \* argument texts
    eBatchSize,     \* argument batch_size
    eMaxRetries,    \* argument max_retries
    eHasKey,        \* whether OPENAI_API_KEY is configured
    ePc,            \* "start", "attempt", then "returned" or "raised"
    valid_texts,    \* local valid_texts
    batch_idx,      \* the loop variable batch_idx
    attempt,        \* the loop variable attempt
    all_embeddings, \* local all_embeddings
    api_log,        \* history: <<batch_idx, attempt, outcome>> of every call
                    \* of client.embeddings.create, in call order
    eOut            \* the returned list

vars == <<text, file_name, page_num, chunk_size, chunk_overlap, pc, sentences, current_chunk,
          chunk_index, chunks, seed_words, settings_CHUNK_SIZE,
          settings_CHUNK_OVERLAP, last_flush, pages, page_idx, all_chunks, docPc,
          idA, idB, idOut, tokText, tokOut,
          fChunks, fN, max_per_cluster, fPc, clustered, kmeans, deduplicated,
          capped, dChunks, dThreshold, dPc, deduped,
          subtopics, limitations, citations_flat, confidence,
          cResponse, cPc, cFlat,
          eTexts, eBatchSize, eMaxRetries, eHasKey, ePc, valid_texts, batch_idx,
          attempt, all_embeddings, api_log, eOut>>

chunkVars == <<text, file_name, page_num, chunk_size, chunk_overlap, pc, sentences, current_chunk,
               chunk_index, chunks, seed_words, settings_CHUNK_SIZE,
               settings_CHUNK_OVERLAP, last_flush>>
docVars == <<pages, page_idx, all_chunks, docPc>>
idVars == <<idA, idB, idOut>>
tokVars == <<tokText, tokOut>>
fusionVars == <<fChunks, fN, max_per_cluster, fPc, clustered, kmeans,
                deduplicated, capped>>
dedupVars == <<dChunks, dThreshold, dPc, deduped>>
confVars == <<subtopics, limitations, citations_flat, confidence>>
citeVars == <<cResponse, cPc, cFlat>>
embedVars == <<eTexts, eBatchSize, eMaxRetries, eHasKey, ePc, valid_texts,
               batch_idx, attempt, all_embeddings, api_log, eOut>>

(***************************************************************************)
(* Python str methods and the regular expressions of chunking.py           *)
(***************************************************************************)
SP == " "
NL == "\n"

\* str.isspace for one character (\s of the regular expressions)
IsSpace(c) == c \in {SP, NL}

\* [.!?]
IsPunct(c) == c \in {".", "!", "?"}

\* [A-Z]
IsUpper(c) == c \in {"A", "S"}

Max(a, b) == IF a >= b THEN a ELSE b
Min(a, b) == IF a <= b THEN a ELSE b

\* s[i:] for 0 <= i  (Python slice: 0-based start)
From(s, i) == SubSeq(s, i + 1, Len(s))

\* s[:i] for 0 <= i
Upto(s, i) == SubSeq(s, 1, Min(i, Len(s)))

RECURSIVE LStrip(_)
LStrip(s) ==
    IF s = <<>> THEN <<>>
    ELSE IF IsSpace(Head(s)) THEN LStrip(Tail(s)) ELSE s

RECURSIVE RStrip(_)
RStrip(s) ==
    IF s = <<>> THEN <<>>
    ELSE IF IsSpace(s[Len(s)]) THEN RStrip(SubSeq(s, 1, Len(s) - 1)) ELSE s

\* a text that is used as it is, where the code strips it
Strip_Omitted(s) == s

\* str.strip()
Strip(s) == RStrip(LStrip(s))

\* the length of the run of whitespace that starts s
RECURSIVE SpaceRun(_)
SpaceRun(s) ==
    IF s = <<>> \/ ~IsSpace(Head(s)) THEN 0 ELSE 1 + SpaceRun(Tail(s))

\* the length of the run of non-whitespace that starts s
RECURSIVE WordRun(_)
WordRun(s) ==
    IF s = <<>> \/ IsSpace(Head(s)) THEN 0 ELSE 1 + WordRun(Tail(s))

\* str.split(): the maximal runs of non-whitespace, in order
RECURSIVE SplitWords(_)
SplitWords(s) ==
    LET t == LStrip(s)
        n == WordRun(t)
    IN  IF t = <<>> THEN <<>>
        ELSE <<Upto(t, n)>> \o SplitWords(From(t, n))

\* whether s starts with the separator sep
StartsWith(s, sep) == Len(s) >= Len(sep) /\ SubSeq(s, 1, Len(sep)) = sep

\* str.split(sep) for a non-empty separator: the pieces between the
\* non-overlapping occurrences of sep found left to right, empty ones kept;
\* cur is the piece being read
RECURSIVE SplitOnFrom(_, _, _)
SplitOnFrom(s, sep, cur) ==
    IF s = <<>> THEN <<cur>>
    ELSE IF StartsWith(s, sep)
         THEN <<cur>> \o SplitOnFrom(From(s, Len(sep)), sep, <<>>)
         ELSE SplitOnFrom(Tail(s), sep, Append(cur, Head(s)))

SplitOn(s, sep) == SplitOnFrom(s, sep, <<>>)

\* re.compile(r'(?<=[.!?])\s+(?=[A-Z])').split(text): a split point is a
\* maximal run of whitespace right after punctuation and right before an
\* upper-case letter; prev is the character before s, cur the piece being read
RECURSIVE SentenceSplitFrom(_, _, _)
SentenceSplitFrom(s, prev, cur) ==
    IF s = <<>> THEN <<cur>>
    ELSE LET n == SpaceRun(s)
         IN  IF /\ n > 0
                /\ IsPunct(prev)
                /\ n < Len(s)
                /\ IsUpper(s[n + 1])
             THEN <<cur>> \o SentenceSplitFrom(From(s, n), s[n], <<>>)
             ELSE SentenceSplitFrom(Tail(s), Head(s), Append(cur, Head(s)))

SentenceSplit(s) == SentenceSplitFrom(s, "", <<>>)

\* the end offset of the last match of re.finditer(r'[.!?]\s+', s), or 0 for
\* last_sentence_start = None (no match); a match always ends at an offset >= 2
RECURSIVE LastSentenceStartFrom(_, _, _)
LastSentenceStartFrom(s, pos, last) ==
    IF s = <<>> THEN last
    ELSE LET n == SpaceRun(Tail(s))
         IN  IF IsPunct(Head(s)) /\ n > 0
             THEN LastSentenceStartFrom(From(s, n + 1), pos + n + 1, pos + n + 1)
             ELSE LastSentenceStartFrom(Tail(s), pos + 1, last)

LastSentenceStart(s) == LastSentenceStartFrom(s, 0, 0)

(***************************************************************************)
(* settings (config.py): CHUNK_SIZE = int(os.getenv("CHUNK_SIZE", "600")),  *)
(* CHUNK_OVERLAP = int(os.getenv("CHUNK_OVERLAP", "90")); the defaults      *)
(***************************************************************************)
CHUNK_SIZE == 600
CHUNK_OVERLAP == 90

\* characters per estimated token
CharsPerToken == 4

\* the token estimate without its floor of 1
estimate_tokens_NoFloor(s) == Len(s) \div CharsPerToken

(***************************************************************************)
(* estimate_tokens (chunking.py:58-76)                                     *)
(***************************************************************************)
estimate_tokens(s) ==
    IF s = <<>> THEN 0
    ELSE Max(1, Len(s) \div CharsPerToken)

(***************************************************************************)
(* chunk_text (chunking.py:79-229)                                         *)
(***************************************************************************)
\* chunk_size = chunk_size or settings.CHUNK_SIZE
EffChunkSize(cs) == IF cs = 0 THEN settings_CHUNK_SIZE ELSE cs

\* chunk_overlap = chunk_overlap or settings.CHUNK_OVERLAP
EffChunkOverlap(co) == IF co = 0 THEN settings_CHUNK_OVERLAP ELSE co

\* chunk_size_chars = chunk_size * 4
SizeChars(cs) == EffChunkSize(cs) * CharsPerToken

\* chunk_overlap_chars = chunk_overlap * 4
OverlapChars(co) == EffChunkOverlap(co) * CharsPerToken

\* lines 120-130: the sentence split, then the paragraph and line fallbacks
Segments(t) ==
    LET bySentence == SentenceSplit(t)
        byParagraph == SplitOn(t, <<NL, NL>>)
    IN  IF Len(bySentence) = 1
        THEN IF Len(byParagraph) = 1 THEN SplitOn(t, <<NL>>) ELSE byParagraph
        ELSE bySentence

\* Chunk(text=buf.strip(), chunk_index=idx, file, page, metadata={...});
\* kind is the metadata's split_type ("none": the key is absent); ov is the
\* history field: how many leading words of the chunk are seeded overlap
NewChunk(buf, idx, kind, ov) ==
    [text |-> Strip(buf),
     chunk_index |-> idx,
     file |-> file_name,
     page |-> page_num,
     token_estimate |-> estimate_tokens(buf),
     char_count |-> Len(buf),
     split_type |-> kind,
     overlap_words |-> ov]

\* every buffer is appended, blank or not
KeepChunk_Always(buf) == TRUE

\* lines 146, 195, 214: `if buf.strip():` guards every append to chunks
KeepChunk(buf) == Strip(buf) /= <<>>

\* the index is not advanced
NextIndex_Stuck(i) == i

\* lines 158, 208: chunk_index += 1
NextIndex(i) == i + 1

\* the buffer alone is measured, not the buffer with the sentence added
IsFull_BufferOnly(buf, potential_chunk, szc) == Len(buf) > szc

\* line 144: the buffer is flushed before the sentence is added
IsFull(buf, potential_chunk, szc) ==
    Len(buf) > 0 /\ Len(potential_chunk) > szc

\* the buffer that follows a flushed buffer starts with the sentence alone
SeedBuffer_None(buf, sentence, ovc) == [buf |-> sentence, seed |-> 0]

\* the window seeds the buffer whole, sentence boundary or not
SeedBuffer_WholeWindow(buf, sentence, ovc) ==
    IF ovc > 0 /\ Len(buf) > ovc
    THEN LET overlap_text == From(buf, Len(buf) - ovc)
         IN  [buf |-> overlap_text \o <<SP>> \o sentence,
              seed |-> Len(SplitWords(overlap_text))]
    ELSE [buf |-> sentence, seed |-> 0]

\* lines 162-178: the buffer that follows a flushed buffer buf, and the
\* number of its leading words that come from buf
SeedBuffer(buf, sentence, ovc) ==
    IF ovc > 0 /\ Len(buf) > ovc
    THEN LET overlap_text == From(buf, Len(buf) - ovc)
             last_sentence_start == LastSentenceStart(overlap_text)
             w == IF last_sentence_start /= 0
                  THEN From(overlap_text, last_sentence_start)
                  ELSE overlap_text
         IN  [buf |-> w \o <<SP>> \o sentence, seed |-> Len(SplitWords(w))]
    ELSE [buf |-> sentence, seed |-> 0]

\* lines 141-183: the buffer, the chunk list and the index after one sentence
\* has been offered to the buffer
Accumulate(st, sentence, szc, ovc) ==
    LET potential_chunk == IF st.buf /= <<>>
                           THEN st.buf \o <<SP>> \o sentence
                           ELSE sentence
    IN  IF IsFull(st.buf, potential_chunk, szc)
        THEN IF KeepChunk(st.buf)
             THEN LET nb == SeedBuffer(st.buf, sentence, ovc)
                  IN  [buf |-> nb.buf, seed |-> nb.seed,
                       chunks |-> Append(st.chunks,
                                    NewChunk(st.buf, st.idx, "none", st.seed)),
                       idx |-> NextIndex(st.idx)]
             ELSE [st EXCEPT !.buf = sentence, !.seed = 0]
        ELSE [st EXCEPT !.buf = potential_chunk]

\* temp_chunk keeps growing after it was flushed
RestartTemp_Grow(temp, word) == temp \o <<SP>> \o word

\* line 209: temp_chunk = word, when word does not fit
RestartTemp(temp, word) == word

\* lines 191-209: the word loop over words; w holds temp_chunk (temp), the
\* chunk list, the index, how many of the coming words are seeded overlap
\* (left) and how many words of temp_chunk are (tseed)
RECURSIVE WordLoop(_, _, _)
WordLoop(words, w, szc) ==
    IF words = <<>> THEN w
    ELSE LET word == Head(words)
             s == IF w.left > 0 THEN 1 ELSE 0
             fits == Len(w.temp) + Len(word) + 1 <= szc
             flush == ~fits /\ KeepChunk(w.temp)
         IN  WordLoop(Tail(words),
                [temp |-> IF fits
                          THEN IF w.temp /= <<>>
                               THEN w.temp \o <<SP>> \o word ELSE word
                          ELSE RestartTemp(w.temp, word),
                 tseed |-> IF fits THEN w.tseed + s ELSE s,
                 left |-> Max(0, w.left - 1),
                 chunks |-> IF flush
                            THEN Append(w.chunks,
                                   NewChunk(w.temp, w.idx, "word_boundary",
                                            w.tseed))
                            ELSE w.chunks,
                 idx |-> IF flush THEN NextIndex(w.idx) ELSE w.idx],
                szc)

\* a long buffer is never split
SplitLong_Never(st, szc) == st

\* lines 185-211: the forced word-level split of a buffer longer than
\* twice the chunk size
SplitLong(st, szc) ==
    IF Len(st.buf) > szc * 2
    THEN LET w == WordLoop(SplitWords(st.buf),
                     [temp |-> <<>>, tseed |-> 0, left |-> st.seed,
                      chunks |-> st.chunks, idx |-> st.idx], szc)
         IN  [buf |-> w.temp, seed |-> w.tseed,
              chunks |-> w.chunks, idx |-> w.idx]
    ELSE st

\* lines 136-211: one iteration of `for sentence in sentences`
LoopBody(st, raw, szc, ovc) ==
    LET sentence == Strip(raw)
    IN  IF sentence = <<>> THEN st
        ELSE SplitLong(Accumulate(st, sentence, szc, ovc), szc)

\* history of lines 144-180: the flushed buffer, the segment and the buffer
\* of line 176 or 178 when this iteration appended the buffer to chunks at
\* line 146, else the history as it was
FlushOf(st, raw, szc, ovc, was) ==
    LET sentence == Strip(raw)
        after == Accumulate(st, sentence, szc, ovc)
    IN  IF sentence /= <<>> /\ Len(after.chunks) > Len(st.chunks)
        THEN <<st.buf, sentence, after.buf>>
        ELSE was

\* the last buffer is forgotten
FinalChunks_Forgotten(st) == st.chunks

\* lines 213-225: the final flush
FinalChunks(st) ==
    IF KeepChunk(st.buf)
    THEN Append(st.chunks, NewChunk(st.buf, st.idx, "none", st.seed))
    ELSE st.chunks

\* lines 108-111: the early return for a missing or blank text
IsBlank(t) == t = <<>> \/ Strip(t) = <<>>

(***************************************************************************)
(* The inputs of chunk_text                                                *)
(***************************************************************************)
\* the most pieces a text is made of
MaxPieces == 5

\* a word of exactly CharsPerToken characters
LongWord == <<"a", "a", "a", "a">>

\* what texts are made of: a word as long as the smallest chunk size, an
\* upper-case letter, a sentence end (punctuation, blank), a blank, a newline
Pieces == {LongWord, <<"A">>, <<".", SP>>, <<SP>>, <<NL>>}

RECURSIVE TextsOf(_)
TextsOf(n) ==
    IF n = 0 THEN {<<>>}
    ELSE LET shorter == TextsOf(n - 1)
         IN  shorter \cup {t \o p : t \in shorter, p \in Pieces}

Texts == TextsOf(MaxPieces)

\* the calls (file_name, page_num, chunk_size, chunk_overlap) with the
\* settings (CHUNK_SIZE, CHUNK_OVERLAP) they run under: chunk sizes of 4 and
\* 8 characters, each with an overlap of 4 characters and with
\* chunk_overlap = 0, which `or` replaces by the setting: the default of 90
\* tokens, or a CHUNK_OVERLAP of 1 token taken from the environment
ChunkCalls ==
    {<<<<"a", ".", "t">>, 1, 1, 1, CHUNK_SIZE, CHUNK_OVERLAP>>,
     <<<<"a", SP, "b">>, 2, 1, 0, CHUNK_SIZE, CHUNK_OVERLAP>>,
     <<<<"a", SP, "b">>, 2, 2, 1, CHUNK_SIZE, CHUNK_OVERLAP>>,
     <<<<"a", ".", "t">>, 1, 2, 0, CHUNK_SIZE, CHUNK_OVERLAP>>,
     <<<<"a", ".", "t">>, 1, 2, 0, CHUNK_SIZE, 1>>}

\* the text "Sentence one. Sentence two. Sentence three.", and the call
\* with it: chunk_size = 3 (12 characters), chunk_overlap = 1 (4 characters)
ThreeSentences ==
    <<"S", "e", "n", "t", "e", "n", "c", "e", SP,
      "o", "n", "e", ".", SP,
      "S", "e", "n", "t", "e", "n", "c", "e", SP,
      "t", "w", "o", ".", SP,
      "S", "e", "n", "t", "e", "n", "c", "e", SP,
      "t", "h", "r", "e", "e", ".">>

ThreeSentencesCall == <<<<"a", ".", "t">>, 1, 3, 1, CHUNK_SIZE, CHUNK_OVERLAP>>

ChunkIdle ==
    /\ text = <<>> /\ file_name = <<>> /\ page_num = 0 /\ chunk_size = 0 /\ chunk_overlap = 0 /\ pc = "idle"
    /\ sentences = <<>> /\ current_chunk = <<>> /\ chunk_index = 0
    /\ chunks = <<>> /\ seed_words = 0
    /\ settings_CHUNK_SIZE = CHUNK_SIZE /\ settings_CHUNK_OVERLAP = CHUNK_OVERLAP
    /\ last_flush = <<>>

DocIdle ==
    pages = <<>> /\ page_idx = 0 /\ all_chunks = <<>> /\ docPc = "idle"

IdIdle == idA = <<>> /\ idB = <<>> /\ idOut = <<>>

TokIdle == tokText = <<>> /\ tokOut = -1

FusionIdle ==
    /\ fChunks = <<>> /\ fN = 0 /\ max_per_cluster = 0 /\ fPc = "idle"
    /\ clustered = <<>> /\ kmeans = "not_run"
    /\ deduplicated = <<>> /\ capped = <<>>

DedupIdle ==
    dChunks = <<>> /\ dThreshold = <<0, 1>> /\ dPc = "idle" /\ deduped = <<>>

ConfIdle ==
    /\ subtopics = 0 /\ limitations = FALSE /\ citations_flat = <<>>
    /\ confidence = -1

CiteIdle == cResponse = <<>> /\ cPc = "idle" /\ cFlat = <<>>

EmbedIdle ==
    /\ eTexts = <<>> /\ eBatchSize = 1 /\ eMaxRetries = 1 /\ eHasKey = TRUE
    /\ ePc = "idle" /\ valid_texts = <<>> /\ batch_idx = 0 /\ attempt = 0
    /\ all_embeddings = <<>> /\ api_log = <<>> /\ eOut = <<>>

\* the call chunk_text(text, file_name, page_num, chunk_size, chunk_overlap)
InitChunk ==
    /\ \E c \in ChunkCalls \cup {ThreeSentencesCall} :
          /\ file_name = c[1] /\ page_num = c[2]
          /\ chunk_size = c[3] /\ chunk_overlap = c[4]
          /\ settings_CHUNK_SIZE = c[5] /\ settings_CHUNK_OVERLAP = c[6]
          /\ IF c = ThreeSentencesCall
             THEN text = ThreeSentences
             ELSE text \in Texts
    /\ pc = "start"
    /\ sentences = <<>>
    /\ current_chunk = <<>>
    /\ chunk_index = 0
    /\ chunks = <<>>
    /\ seed_words = 0
    /\ last_flush = <<>>
    /\ DocIdle /\ IdIdle /\ TokIdle /\ FusionIdle /\ DedupIdle /\ ConfIdle
    /\ CiteIdle /\ EmbedIdle

\* lines 105-134: the defaults, the early return, the segmentation
Begin ==
    /\ pc = "start"
    /\ IF IsBlank(text)
       THEN pc' = "done" /\ sentences' = <<>>
       ELSE pc' = "loop" /\ sentences' = Segments(text)
    /\ current_chunk' = <<>>
    /\ chunk_index' = 0
    /\ chunks' = <<>>
    /\ seed_words' = 0
    /\ last_flush' = <<>>
    /\ UNCHANGED <<text, file_name, page_num, chunk_size, chunk_overlap,
                   settings_CHUNK_SIZE, settings_CHUNK_OVERLAP>>
    /\ UNCHANGED <<docVars, idVars, tokVars, fusionVars, dedupVars, confVars,
                   citeVars, embedVars>>

\* lines 136-211: one loop iteration
Iterate ==
    /\ pc = "loop"
    /\ sentences /= <<>>
    /\ LET before == [buf |-> current_chunk, seed |-> seed_words,
                       chunks |-> chunks, idx |-> chunk_index]
           szc == SizeChars(chunk_size)
           ovc == OverlapChars(chunk_overlap)
           st == LoopBody(before, Head(sentences), szc, ovc)
       IN  /\ current_chunk' = st.buf
           /\ seed_words' = st.seed
           /\ chunks' = st.chunks
           /\ chunk_index' = st.idx
           /\ last_flush' = FlushOf(before, Head(sentences), szc, ovc, last_flush)
    /\ sentences' = Tail(sentences)
    /\ UNCHANGED <<text, file_name, page_num, chunk_size, chunk_overlap, pc,
                   settings_CHUNK_SIZE, settings_CHUNK_OVERLAP>>
    /\ UNCHANGED <<docVars, idVars, tokVars, fusionVars, dedupVars, confVars,
                   citeVars, embedVars>>

\* lines 213-229: the final flush and the return
Finish ==
    /\ pc = "loop"
    /\ sentences = <<>>
    /\ chunks' = FinalChunks([buf |-> current_chunk, seed |-> seed_words,
                              chunks |-> chunks, idx |-> chunk_index])
    /\ pc' = "done"
    /\ UNCHANGED <<text, file_name, page_num, chunk_size, chunk_overlap,
                   sentences, current_chunk, chunk_index, seed_words,
                   settings_CHUNK_SIZE, settings_CHUNK_OVERLAP, last_flush>>
    /\ UNCHANGED <<docVars, idVars, tokVars, fusionVars, dedupVars, confVars,
                   citeVars, embedVars>>

NextChunk == Begin \/ Iterate \/ Finish

SpecChunk == InitChunk /\ [][NextChunk]_vars

(***************************************************************************)
(* Chunk.get_id (chunking.py:30-44)                                        *)
(***************************************************************************)
Digit(d) == <<"0", "1", "2", "3", "4", "5", "6", "7", "8", "9">>[d + 1]

\* str(n) for n >= 0
RECURSIVE Str(_)
Str(n) == IF n < 10 THEN <<Digit(n)>> ELSE Str(n \div 10) \o <<Digit(n % 10)>>

\* s.replace(old, new) for one-character old and new
Replace(s, old, new) == [i \in 1..Len(s) |-> IF s[i] = old THEN new ELSE s[i]]

\* the offset of the last c in s, 0 when s holds none
RECURSIVE LastIndexOf(_, _)
LastIndexOf(s, c) ==
    IF s = <<>> THEN 0
    ELSE IF s[Len(s)] = c THEN Len(s)
         ELSE LastIndexOf(SubSeq(s, 1, Len(s) - 1), c)

\* line 41: file.rsplit('.', 1)[0] if '.' in file else file
StripExtension(file) ==
    IF LastIndexOf(file, ".") /= 0
    THEN SubSeq(file, 1, LastIndexOf(file, ".") - 1)
    ELSE file

\* line 42: file_base.replace(' ', '_').replace('/', '_')
Sanitize(file_base) == Replace(Replace(file_base, SP, "_"), "/", "_")

\* line 44: f"{file_base}_p{self.page}_c{self.chunk_index}"
get_id(c) ==
    Sanitize(StripExtension(c.file)) \o <<"_", "p">> \o Str(c.page)
        \o <<"_", "c">> \o Str(c.chunk_index)

\* the largest page number and chunk index of the triples
MaxPage == 2
MaxChunkIndex == 1

IdFiles ==
    {<<"a", ".", "t">>, <<"a", ".", "p">>, <<"a", SP, "b">>,
     <<"a", "_", "b">>, <<"a", "/", "b">>, <<"b">>}

Triples == [file : IdFiles, page : 1..MaxPage, chunk_index : 0..MaxChunkIndex]

\* two chunks, each a (file, page, chunk_index) triple
InitId ==
    /\ idA \in Triples
    /\ idB \in Triples
    /\ idOut = <<>>
    /\ ChunkIdle /\ TokIdle /\ FusionIdle /\ DedupIdle /\ ConfIdle
    /\ DocIdle /\ CiteIdle /\ EmbedIdle

\* get_id is called on both chunks
GetIds ==
    /\ idOut = <<>>
    /\ idOut' = <<get_id(idA), get_id(idB)>>
    /\ UNCHANGED <<idA, idB, chunkVars, tokVars, fusionVars, dedupVars, confVars,
                 docVars, citeVars, embedVars>>

NextId == GetIds

SpecId == InitId /\ [][NextId]_vars

\* C4: two chunks whose (file, page, chunk_index) triples differ get two
\* different chunk ids.
C4_UniqueIds ==
    (idOut /= <<>> /\ idA /= idB) => idOut[1] /= idOut[2]

(***************************************************************************)
(* Calls of estimate_tokens                                                *)
(***************************************************************************)
\* the longest text estimate_tokens is called on
MaxTokLen == 9

RECURSIVE SeqsUpTo(_, _)
SeqsUpTo(S, n) ==
    IF n = 0 THEN {<<>>}
    ELSE LET shorter == SeqsUpTo(S, n - 1)
         IN  shorter \cup {Append(t, x) : t \in shorter, x \in S}

InitTok ==
    /\ tokText \in SeqsUpTo({"a", SP}, MaxTokLen)
    /\ tokOut = -1
    /\ ChunkIdle /\ IdIdle /\ FusionIdle /\ DedupIdle /\ ConfIdle
    /\ DocIdle /\ CiteIdle /\ EmbedIdle

EstimateTokens ==
    /\ tokOut = -1
    /\ tokOut' = estimate_tokens(tokText)
    /\ UNCHANGED <<tokText, chunkVars, idVars, fusionVars, dedupVars, confVars,
                 docVars, citeVars, embedVars>>

NextTok == EstimateTokens

SpecTok == InitTok /\ [][NextTok]_vars

\* C8 as claimed: for every text, the empty string included,
\* estimate_tokens(text) = max(1, len(text) // 4).
C8_AsClaimed ==
    tokOut /= -1 => tokOut = Max(1, Len(tokText) \div 4)

\* C8, amended: for every non-empty text estimate_tokens(text) is
\* max(1, len(text) // 4): 1 for a text of fewer than 4 characters, else the
\* whole number of 4-character groups; for the empty string it is 0.
C8_Estimate ==
    tokOut /= -1 =>
        /\ Len(tokText) = 0 => tokOut = 0
        /\ Len(tokText) \in 1..3 => tokOut = 1
        /\ Len(tokText) >= 4 =>
              4 * tokOut <= Len(tokText) /\ Len(tokText) < 4 * tokOut + 4

\* estimate_tokens has returned for a text shorter than 4 characters
C8_Witness == tokOut = 1 /\ Len(tokText) \in 1..3

(***************************************************************************)
(* Properties of chunk_text                                                *)
(***************************************************************************)
Returned == pc = "done"

\* t is empty or holds whitespace only
OnlyWhitespace(t) == \A i \in 1..Len(t) : IsSpace(t[i])

\* the stripped segments the loop visits
StrippedSegments(t) ==
    LET segs == Segments(t) IN [i \in 1..Len(segs) |-> Strip(segs[i])]

\* no sentence-like segment is longer than the chunk size
NoOversizedSegment ==
    \A i \in 1..Len(StrippedSegments(text)) :
        Len(StrippedSegments(text)[i]) <= SizeChars(chunk_size)

\* no whitespace-delimited word is longer than the chunk size
NoOversizedWord ==
    \A i \in 1..Len(SplitWords(text)) :
        Len(SplitWords(text)[i]) <= SizeChars(chunk_size)

Normal(c) == c.split_type = "none"
WordBoundary(c) == c.split_type = "word_boundary"
Seeded(c) == c.overlap_words > 0

\* C1 as claimed: without an oversized segment, and with chunk_size >= 1 and
\* chunk_overlap >= 1, every returned chunk that is not a word_boundary chunk
\* has at most chunk_size*4 characters, overlap-seeded chunks included.
C1_AsClaimed ==
    (Returned /\ NoOversizedSegment /\ chunk_size >= 1 /\ chunk_overlap >= 1)
    => \A i \in 1..Len(chunks) :
          Normal(chunks[i]) => Len(chunks[i].text) <= SizeChars(chunk_size)

\* C1, amended: without an oversized segment, and with chunk_size >= 1 and
\* chunk_overlap >= 1, every returned chunk that is not a word_boundary chunk
\* has at most chunk_size*4 characters when its buffer was not seeded with
\* overlap text, and at most chunk_size*4 + chunk_overlap*4 + 1 characters,
\* never more than 2*chunk_size*4, when it was.
C1_SizeBound ==
    (Returned /\ NoOversizedSegment /\ chunk_size >= 1 /\ chunk_overlap >= 1)
    => \A i \in 1..Len(chunks) :
          Normal(chunks[i]) =>
             IF Seeded(chunks[i])
             THEN Len(chunks[i].text) <=
                     Min(SizeChars(chunk_size) + OverlapChars(chunk_overlap) + 1,
                         2 * SizeChars(chunk_size))
             ELSE Len(chunks[i].text) <= SizeChars(chunk_size)

\* a returned normal chunk that was seeded and is longer than the chunk size,
\* though no segment is
C1_Witness ==
    /\ Returned /\ NoOversizedSegment /\ chunk_size >= 1 /\ chunk_overlap >= 1
    /\ \E i \in 1..Len(chunks) :
          /\ Normal(chunks[i]) /\ Seeded(chunks[i])
          /\ Len(chunks[i].text) > SizeChars(chunk_size)

\* C2 as claimed: for every text and chunk_size >= 1, every returned
\* word_boundary chunk has at most chunk_size*4 characters, also when one word
\* is longer than that.
C2_AsClaimed ==
    (Returned /\ chunk_size >= 1)
    => \A i \in 1..Len(chunks) :
          WordBoundary(chunks[i]) =>
             Len(chunks[i].text) <= SizeChars(chunk_size)

\* C2, amended: for every text in which no whitespace-delimited word is
\* longer than chunk_size*4 characters, and chunk_size >= 1, every returned
\* word_boundary chunk has at most chunk_size*4 characters.
C2_WordBoundaryBound ==
    (Returned /\ NoOversizedWord /\ chunk_size >= 1)
    => \A i \in 1..Len(chunks) :
          WordBoundary(chunks[i]) =>
             Len(chunks[i].text) <= SizeChars(chunk_size)

\* the forced split has produced two word_boundary chunks from words that fit
C2_Witness ==
    /\ Returned /\ NoOversizedWord /\ chunk_size >= 1
    /\ \E i, j \in 1..Len(chunks) :
          /\ i < j /\ WordBoundary(chunks[i]) /\ WordBoundary(chunks[j])
          /\ Len(chunks[j].text) = SizeChars(chunk_size)

\* the words of chunk c that were not seeded from the previous chunk
FreshWords(c) ==
    LET ws == SplitWords(c.text)
    IN  SubSeq(ws, c.overlap_words + 1, Len(ws))

\* the words of all chunks, seeded overlap removed, in order
RECURSIVE AllFreshWords(_)
AllFreshWords(cs) ==
    IF cs = <<>> THEN <<>>
    ELSE FreshWords(Head(cs)) \o AllFreshWords(Tail(cs))

\* C3: for a non-blank text, the returned chunks' words, in order and with
\* each chunk's seeded overlap removed, are exactly the words of the text:
\* none lost, duplicated or reordered.
C3_Coverage ==
    (Returned /\ ~OnlyWhitespace(text))
    => AllFreshWords(chunks) = SplitWords(text)

\* a run with a normal flush, a seeded buffer, a forced word-level split of
\* that seeded buffer and a final flush
C3_Witness ==
    /\ Returned /\ ~OnlyWhitespace(text)
    /\ \E i, j, k \in 1..Len(chunks) :
          /\ i < j /\ j < k
          /\ Normal(chunks[i])
          /\ WordBoundary(chunks[j]) /\ Seeded(chunks[j])
          /\ Normal(chunks[k]) /\ k = Len(chunks)

\* C5: no returned chunk has a text that is empty after trimming.
C5_NoEmptyChunk ==
    Returned => \A i \in 1..Len(chunks) : ~OnlyWhitespace(chunks[i].text)

\* the forced split met a first word that does not fit an empty temp_chunk,
\* the one place where the guard sees an empty buffer
C5_Witness ==
    /\ Returned
    /\ \E i \in 1..Len(chunks) : WordBoundary(chunks[i])
    /\ \E i \in 1..Len(SplitWords(text)) :
          Len(SplitWords(text)[i]) >= SizeChars(chunk_size)

\* C6: a text that is empty or only whitespace returns the empty list.
C6_BlankGivesEmpty ==
    (Returned /\ OnlyWhitespace(text)) => chunks = <<>>

\* chunk_text has returned for a text of blanks and newlines
C6_Witness ==
    /\ Returned /\ Len(text) >= 2 /\ OnlyWhitespace(text) /\ chunks = <<>>
    /\ \E i, j \in 1..Len(text) : text[i] = SP /\ text[j] = NL

\* C7: in the returned list the chunk at 0-based position i has
\* chunk_index = i.
C7_SequentialIndex ==
    Returned => \A i \in 1..Len(chunks) : chunks[i].chunk_index = i - 1

\* a returned list of a normal flush, a word_boundary chunk and a final flush
C7_Witness ==
    /\ Returned /\ Len(chunks) >= 3
    /\ \E i, j \in 1..(Len(chunks) - 1) :
          Normal(chunks[i]) /\ WordBoundary(chunks[j])
    /\ chunks[Len(chunks)].chunk_index = Len(chunks) - 1

\* the last n characters of s are the first n characters of t
Overlaps(s, t, n) ==
    /\ n <= Len(s) /\ n <= Len(t)
    /\ SubSeq(s, Len(s) - n + 1, Len(s)) = SubSeq(t, 1, n)

\* C20: chunk_text of "Sentence one. Sentence two. Sentence three." with
\* chunk_size = 3 and chunk_overlap = 1 returns at least 2 chunks, and the
\* text of the second begins with characters from the end of the text of
\* the first.
C20_ThreeSentences ==
    (Returned /\ text = ThreeSentences /\ chunk_size = 3 /\ chunk_overlap = 1)
    => /\ Len(chunks) >= 2
       /\ \E n \in 1..Len(chunks[2].text) :
             Overlaps(chunks[1].text, chunks[2].text, n)

\* the call has returned its three chunks; the second begins with the
\* "one." the first ends with
C20_Witness ==
    /\ Returned /\ text = ThreeSentences /\ chunk_size = 3 /\ chunk_overlap = 1
    /\ Len(chunks) = 3
    /\ Overlaps(chunks[1].text, chunks[2].text, 4)
    /\ chunks[2].overlap_words = 1

\* C26: for every returned chunk, char_count is the number of characters of
\* the chunk's text and token_estimate is estimate_tokens of that text.
C26_MetadataOfText ==
    Returned => \A i \in 1..Len(chunks) :
        /\ chunks[i].char_count = Len(chunks[i].text)
        /\ chunks[i].token_estimate = estimate_tokens(chunks[i].text)

\* no whitespace-delimited word of the text is longer than the chunk size
WordsFit ==
    \A i \in 1..Len(SplitWords(text)) :
        Len(SplitWords(text)[i]) <= SizeChars(chunk_size)

\* C28: when no word of the text is longer than chunk_size*4 characters,
\* the running buffer holds at most 2*chunk_size*4 characters at the end of
\* every loop iteration, and every returned chunk has a text of at most
\* 2*chunk_size*4 characters.
C28_BufferBound ==
    WordsFit =>
        /\ pc = "loop" => Len(current_chunk) <= 2 * SizeChars(chunk_size)
        /\ \A i \in 1..Len(chunks) :
              Len(chunks[i].text) <= 2 * SizeChars(chunk_size)

\* a returned chunk is longer than the chunk size though every word fits,
\* and a forced split has happened on the way
C28_Witness ==
    /\ Returned /\ WordsFit /\ chunk_size >= 1
    /\ \E i \in 1..Len(chunks) :
          Len(chunks[i].text) > SizeChars(chunk_size) /\ Normal(chunks[i])
    /\ \E i \in 1..Len(chunks) : WordBoundary(chunks[i])

\* the last n characters of s
Window(s, n) == SubSeq(s, Len(s) - n + 1, Len(s))

\* the offsets in w where punctuation is followed by whitespace
Boundaries(w) == {i \in 1..(Len(w) - 1) : IsPunct(w[i]) /\ IsSpace(w[i + 1])}

\* the last offset of the whitespace run that follows offset i of w
RunEnd(w, i) ==
    CHOOSE e \in (i + 1)..Len(w) :
        /\ \A k \in (i + 1)..e : IsSpace(w[k])
        /\ e = Len(w) \/ ~IsSpace(w[e + 1])

\* the part of w after its last punctuation-followed-by-whitespace match, w
\* itself when it holds none
AfterLastBoundary(w) ==
    IF Boundaries(w) = {} THEN w
    ELSE LET last == CHOOSE i \in Boundaries(w) : \A j \in Boundaries(w) : j <= i
         IN  SubSeq(w, RunEnd(w, last) + 1, Len(w))

\* C23: after a flush of buffer B before segment s, with overlap_chars > 0
\* and B longer than overlap_chars, the new buffer is W' + " " + s, W being
\* the last overlap_chars characters of B and W' the part of W after its
\* last punctuation-followed-by-whitespace match (W when there is none);
\* with B not longer than overlap_chars the new buffer is s alone.
C23_SeedingRule ==
    last_flush /= <<>> =>
        LET B == last_flush[1]
            s == last_flush[2]
            ovc == OverlapChars(chunk_overlap)
        IN  IF ovc > 0 /\ Len(B) > ovc
            THEN last_flush[3] = AfterLastBoundary(Window(B, ovc)) \o <<SP>> \o s
            ELSE last_flush[3] = s

\* a flush whose window holds a sentence boundary, so that only the part
\* after it is carried over
C23_Witness ==
    /\ last_flush /= <<>>
    /\ Len(last_flush[1]) > OverlapChars(chunk_overlap)
    /\ Boundaries(Window(last_flush[1], OverlapChars(chunk_overlap))) /= {}
    /\ Len(last_flush[3]) > Len(last_flush[2])

\* C27: a call with chunk_overlap = 0 seeds no overlap: after every flush
\* the new buffer is the next segment alone, and no returned chunk starts
\* with words carried over from the chunk before it.
C27_ZeroOverlap ==
    chunk_overlap = 0 =>
        /\ last_flush /= <<>> => last_flush[3] = last_flush[2]
        /\ \A i \in 1..Len(chunks) : chunks[i].overlap_words = 0

(***************************************************************************)
(* chunk_documents (chunking.py:232-254)                                   *)
(***************************************************************************)
\* the most pages of a document
MaxDocPages == 3

\* page texts that give no chunk, one chunk and several chunks under a
\* CHUNK_SIZE of 1 token
DocTexts ==
    {<<>>, <<"A">>, LongWord \o <<".", SP, "A">>,
     LongWord \o <<SP>> \o LongWord \o <<SP>> \o LongWord}

\* the page numbers of the pages; a document may repeat one
DocPageNums == {1, 11}

DocPages == [page_num : DocPageNums, text : DocTexts]

Documents == SeqsUpTo(DocPages, MaxDocPages)

\* every page is chunked under the first page number
PageNum_First(page) == 1

\* line 249: page_num=page.page_num
PageNum(page) == page.page_num

\* the call chunk_documents(pages, file_name), under a CHUNK_SIZE and a
\* CHUNK_OVERLAP of 1 token taken from the environment
InitDocs ==
    /\ pages \in Documents
    /\ file_name \in {<<"a", ".", "t">>, <<"a", SP, "b">>}
    /\ page_idx = 0 /\ all_chunks = <<>> /\ docPc = "loop"
    /\ text = <<>> /\ page_num = 0 /\ chunk_size = 0 /\ chunk_overlap = 0
    /\ pc = "idle"
    /\ sentences = <<>> /\ current_chunk = <<>> /\ chunk_index = 0
    /\ chunks = <<>> /\ seed_words = 0 /\ last_flush = <<>>
    /\ settings_CHUNK_SIZE = 1 /\ settings_CHUNK_OVERLAP = 1
    /\ IdIdle /\ TokIdle /\ FusionIdle /\ DedupIdle /\ ConfIdle
    /\ CiteIdle /\ EmbedIdle

\* lines 245-250: the next page is handed to chunk_text, chunk_size and
\* chunk_overlap left to their defaults
DocNextPage ==
    /\ docPc = "loop"
    /\ page_idx < Len(pages)
    /\ page_idx' = page_idx + 1
    /\ text' = pages[page_idx + 1].text
    /\ page_num' = PageNum(pages[page_idx + 1])
    /\ chunk_size' = 0 /\ chunk_overlap' = 0
    /\ pc' = "start"
    /\ docPc' = "page"
    /\ UNCHANGED <<file_name, sentences, current_chunk, chunk_index, chunks,
                   seed_words, settings_CHUNK_SIZE, settings_CHUNK_OVERLAP,
                   last_flush, pages, all_chunks>>
    /\ UNCHANGED <<idVars, tokVars, fusionVars, dedupVars, confVars,
                   citeVars, embedVars>>

\* line 251: all_chunks.extend(page_chunks)
DocExtend ==
    /\ docPc = "page"
    /\ pc = "done"
    /\ all_chunks' = all_chunks \o chunks
    /\ docPc' = "loop"
    /\ UNCHANGED <<chunkVars, pages, page_idx>>
    /\ UNCHANGED <<idVars, tokVars, fusionVars, dedupVars, confVars,
                   citeVars, embedVars>>

\* lines 253-254: the return after the last page
DocReturn ==
    /\ docPc = "loop"
    /\ page_idx = Len(pages)
    /\ docPc' = "done"
    /\ UNCHANGED <<chunkVars, pages, page_idx, all_chunks>>
    /\ UNCHANGED <<idVars, tokVars, fusionVars, dedupVars, confVars,
                   citeVars, embedVars>>

NextDocs == DocNextPage \/ Begin \/ Iterate \/ Finish \/ DocExtend \/ DocReturn

SpecDocs == InitDocs /\ [][NextDocs]_vars

\* the pages of the document have pairwise distinct page numbers
DistinctPageNumbers ==
    \A i, j \in 1..Len(pages) : i /= j => pages[i].page_num /= pages[j].page_num

\* C22: for a document whose pages have pairwise distinct page numbers, the
\* chunks chunk_documents returns for one file name have pairwise distinct
\* get_id() values.
C22_DistinctIds ==
    (docPc = "done" /\ DistinctPageNumbers) =>
        \A i, j \in 1..Len(all_chunks) :
            i /= j => get_id(all_chunks[i]) /= get_id(all_chunks[j])

\* a returned document of two pages that each gave at least two chunks
C22_Witness ==
    /\ docPc = "done" /\ DistinctPageNumbers /\ Len(pages) >= 2
    /\ \E i, j \in 1..Len(all_chunks) :
          /\ all_chunks[i].page /= all_chunks[j].page
          /\ all_chunks[i].chunk_index >= 1 /\ all_chunks[j].chunk_index >= 1

(***************************************************************************)
(* cluster_chunks (fusion.py:17-86)                                        *)
(***************************************************************************)
\* settings.CLUSTERS (config.py)
CLUSTERS == 3

\* the positions 1..n in order: the whole input list
Positions(n) == [i \in 1..n |-> i]

\* clustered[label] holds that chunk alone, where the code appends it
AddToCluster_Overwrite(m, label, i) ==
    IF label \in DOMAIN m
    THEN [m EXCEPT ![label] = <<i>>]
    ELSE m @@ (label :> <<i>>)

\* the chunk is put in front of its cluster
AddToCluster_Prepend(m, label, i) ==
    IF label \in DOMAIN m
    THEN [m EXCEPT ![label] = <<i>> \o @]
    ELSE m @@ (label :> <<i>>)

\* line 76: clustered[int(label)].append(chunk), clustered a defaultdict(list)
AddToCluster(m, label, i) ==
    IF label \in DOMAIN m
    THEN [m EXCEPT ![label] = Append(@, i)]
    ELSE m @@ (label :> <<i>>)

\* lines 74-76: for chunk, label in zip(chunks, cluster_labels), from the
\* i-th chunk on
RECURSIVE GroupFrom(_, _, _, _)
GroupFrom(i, n, labels, m) ==
    IF i > n THEN m
    ELSE GroupFrom(i + 1, n, labels, AddToCluster(m, labels[i], i))

GroupByLabel(n, labels) == GroupFrom(1, n, labels, <<>>)

\* lines 45, 58, 86: return {0: chunks}
SingleCluster(n) == 0 :> Positions(n)

\* a mapping with one cluster that holds nothing
NoClusters_OneEmpty == 0 :> <<>>

\* lines 36 and 206: return {}
NoClusters == <<>>

\* lines 33 and 39: n_clusters or settings.CLUSTERS, then
\* min(n_clusters, len(chunks))
EffectiveClusters(cs, n) ==
    Min(IF n = 0 THEN CLUSTERS ELSE n, Len(cs))

\* no chunk is taken to lack an embedding
MissingEmbedding_Never(cs) == FALSE

\* lines 51-58: some chunk has no "embedding" key or a falsy embedding
MissingEmbedding(cs) == \E i \in 1..Len(cs) : cs[i] = <<>>

\* line 61 and lines 64-69: np.array accepts embeddings of one length, and
\* KMeans a cluster count of at least 1
KMeansAccepts(cs, k) ==
    /\ k >= 1
    /\ \A i, j \in 1..Len(cs) : Len(cs[i]) = Len(cs[j])

\* line 71: kmeans.fit_predict gives every sample one label of 0..k-1; which
\* one is the library's choice
LabelChoices(cs, k) == [1..Len(cs) -> 0..(k - 1)]

\* lines 61-71: the k-means step raises, which it may do at run time on any
\* input and must do on one it does not accept, or it labels the chunks
KMeansStep(cs, k) ==
    {[ok |-> FALSE, labels |-> <<>>]} \cup
    (IF KMeansAccepts(cs, k)
     THEN {[ok |-> TRUE, labels |-> l] : l \in LabelChoices(cs, k)}
     ELSE {})

\* what a call of cluster_chunks comes to: whether it raised to its caller,
\* the mapping it returned, and what became of the k-means step
Outcome(r, m, km) == [raised |-> r, value |-> m, kmeans |-> km]

\* the exception of the k-means step reaches the caller
OnClusteringError_Reraise(n) == Outcome(TRUE, <<>>, "failed")

\* lines 84-86: except Exception: return {0: chunks}
OnClusteringError(n) == Outcome(FALSE, SingleCluster(n), "failed")

\* the outcomes a call cluster_chunks(chunks, n_clusters) may have
cluster_chunks(cs, n) ==
    LET k == EffectiveClusters(cs, n)
    IN  IF cs = <<>> THEN {Outcome(FALSE, NoClusters, "not_run")}
        ELSE IF k = 1 \/ Len(cs) = 1
             THEN {Outcome(FALSE, SingleCluster(Len(cs)), "not_run")}
        ELSE IF MissingEmbedding(cs)
             THEN {Outcome(FALSE, SingleCluster(Len(cs)), "not_run")}
        ELSE {IF o.ok
              THEN Outcome(FALSE, GroupByLabel(Len(cs), o.labels), "labelled")
              ELSE OnClusteringError(Len(cs)) : o \in KMeansStep(cs, k)}

(***************************************************************************)
(* deduplicate_chunks (fusion.py:89-159)                                   *)
(***************************************************************************)
\* np.dot of two vectors of one length
RECURSIVE Dot(_, _)
Dot(u, v) ==
    IF u = <<>> THEN 0 ELSE Head(u) * Head(v) + Dot(Tail(u), Tail(v))

\* lines 131-135: similarity > threshold, for similarity = dot / (|u| |v|)
\* and threshold = thr[1] / thr[2], thr[2] > 0, compared in exact arithmetic
\* by their squares and signs; with a zero vector the quotient is nan, and
\* nan > threshold is False
Exceeds(u, v, thr) ==
    LET d == Dot(u, v)
        nn == Dot(u, u) * Dot(v, v)
        lhs == d * d * thr[2] * thr[2]
        rhs == thr[1] * thr[1] * nn
    IN  IF nn = 0 THEN FALSE
        ELSE IF thr[1] >= 0 THEN d > 0 /\ lhs > rhs
        ELSE d >= 0 \/ lhs < rhs

\* chunk i against every earlier chunk, kept or not
Compare_AnyEarlier(cs, thr, i, keep, p) ==
    IF \E j \in 1..(i - 1) : Len(cs[i]) /= Len(cs[j]) THEN "error"
    ELSE IF \E j \in 1..(i - 1) : Exceeds(cs[i], cs[j], thr) THEN "duplicate"
    ELSE "distinct"

\* lines 129-142: chunk i against the kept chunks from the p-th on:
\* "duplicate", "distinct", or "error" when np.dot raises for two vectors of
\* different lengths
RECURSIVE Compare(_, _, _, _, _)
Compare(cs, thr, i, keep, p) ==
    IF p > Len(keep) THEN "distinct"
    ELSE IF Len(cs[i]) /= Len(cs[keep[p]]) THEN "error"
    ELSE IF Exceeds(cs[i], cs[keep[p]], thr) THEN "duplicate"
    ELSE Compare(cs, thr, i, keep, p + 1)

\* every chunk is kept, duplicate or not
Visit_KeepAll(keep, i, verdict) == Append(keep, i)

\* a duplicate takes the place of the chunk kept last
Visit_LastWins(keep, i, verdict) ==
    IF verdict = "distinct" THEN Append(keep, i)
    ELSE Append(SubSeq(keep, 1, Len(keep) - 1), i)

\* lines 144-145: if not is_duplicate: keep_indices.append(i)
Visit(keep, i, verdict) ==
    IF verdict = "distinct" THEN Append(keep, i) ELSE keep

\* lines 125-145: the loop over the chunks from the i-th on; the result is
\* keep_indices, or <<0>> when the loop raised
RECURSIVE KeepIndices(_, _, _, _)
KeepIndices(cs, thr, i, keep) ==
    IF i > Len(cs) THEN keep
    ELSE LET verdict == Compare(cs, thr, i, keep, 1)
         IN  IF verdict = "error" THEN <<0>>
             ELSE KeepIndices(cs, thr, i + 1, Visit(keep, i, verdict))

\* the returned list, as the positions of its chunks in cs
deduplicate_chunks(cs, thr) ==
    IF Len(cs) <= 1 THEN Positions(Len(cs))
    ELSE IF \E i \in 1..Len(cs) : cs[i] = <<>> THEN Positions(Len(cs))
    ELSE LET kept == KeepIndices(cs, thr, 1, <<>>)
         IN  IF kept = <<0>> THEN Positions(Len(cs)) ELSE kept

\* line 91: threshold: float = 0.95
DefaultThreshold == <<19, 20>>

(***************************************************************************)
(* cap_chunks_per_cluster (fusion.py:162-181) and the stages of            *)
(* fuse_retrieved_chunks (fusion.py:184-219)                               *)
(***************************************************************************)
\* one chunk fewer than asked for
Slice_Exclusive(s, n) == SubSeq(s, 1, Min(n - 1, Len(s)))

\* one chunk more than asked for
Slice_Inclusive(s, n) == SubSeq(s, 1, Min(n + 1, Len(s)))

\* line 179: chunks[:max_per_cluster]; a negative bound counts from the end
Slice(s, n) ==
    IF n >= 0 THEN SubSeq(s, 1, Min(n, Len(s)))
    ELSE SubSeq(s, 1, Max(0, Len(s) + n))

\* every cluster is returned whole
cap_chunks_per_cluster_Uncapped(m, mx) == m

\* lines 176-181
cap_chunks_per_cluster(m, mx) == [l \in DOMAIN m |-> Slice(m[l], mx)]

\* line 213: deduplicate_chunks(clustered[cluster_id]) with the default
\* threshold, for a cluster c of chunks of cs
DeduplicateCluster(cs, c) ==
    LET kept == deduplicate_chunks([j \in 1..Len(c) |-> cs[c[j]]],
                                   DefaultThreshold)
    IN  [j \in 1..Len(kept) |-> c[kept[j]]]

\* lines 212-213: for cluster_id in clustered
DeduplicateEach(cs, m) == [l \in DOMAIN m |-> DeduplicateCluster(cs, m[l])]

(***************************************************************************)
(* Calls of cluster_chunks and of fuse_retrieved_chunks                    *)
(***************************************************************************)
\* the embeddings of the chunks: vectors of two dimensions, one of them
\* zero, one of another dimension, and <<>> for a missing or empty embedding
Vecs == {<<1, 0>>, <<0, 1>>, <<1, 1>>, <<3, 4>>, <<0, 0>>, <<1>>, <<>>}

\* the longest chunk list, and the largest n_clusters
MaxChunks == 3
MaxClusters == 3

ChunkLists == SeqsUpTo(Vecs, MaxChunks)

\* the chunk lists fuse_retrieved_chunks is called with: lists of up to
\* MaxChunks chunks, and two lists of six chunks with pairwise distinct
\* embeddings, of one length and of two
FuseVecs == {<<1, 0>>, <<1, 1>>, <<3, 4>>, <<1>>, <<>>}

SixDistinct ==
    <<<<1, 0>>, <<0, 1>>, <<1, 1>>, <<3, 4>>, <<2, 1>>, <<1, 2>>>>

SixRagged ==
    <<<<1, 0>>, <<0, 1>>, <<1, 1>>, <<3, 4>>, <<2, 1>>, <<1>>>>

\* the largest max_per_cluster of the short lists
MaxPerCluster == 2

InitFusion ==
    /\ \/ /\ fPc = "start"
          /\ fChunks \in ChunkLists
          /\ fN \in -1..MaxClusters
          /\ max_per_cluster = 0
       \/ /\ fPc = "fuse"
          /\ fChunks \in SeqsUpTo(FuseVecs, MaxChunks)
          /\ fN \in -1..MaxClusters
          /\ max_per_cluster \in -1..MaxPerCluster
       \/ /\ fPc = "fuse"
          /\ fChunks \in {SixDistinct, SixRagged}
          /\ fN = 3
          /\ max_per_cluster = 2
    /\ clustered = <<>>
    /\ kmeans = "not_run"
    /\ deduplicated = <<>>
    /\ capped = <<>>
    /\ ChunkIdle /\ IdIdle /\ TokIdle /\ DedupIdle /\ ConfIdle
    /\ DocIdle /\ CiteIdle /\ EmbedIdle

\* the call cluster_chunks(fChunks, fN)
ClusterChunks ==
    /\ fPc = "start"
    /\ \E r \in cluster_chunks(fChunks, fN) :
          /\ clustered' = r.value
          /\ kmeans' = r.kmeans
          /\ fPc' = IF r.raised THEN "raised" ELSE "clustered"
    /\ UNCHANGED <<fChunks, fN, max_per_cluster, deduplicated, capped>>
    /\ UNCHANGED <<chunkVars, idVars, tokVars, dedupVars, confVars,
                 docVars, citeVars, embedVars>>

\* fuse_retrieved_chunks, lines 205-209: the early return and the cluster
\* stage
FuseCluster ==
    /\ fPc = "fuse"
    /\ IF fChunks = <<>>
       THEN /\ capped' = NoClusters
            /\ fPc' = "fused"
            /\ UNCHANGED <<clustered, kmeans>>
       ELSE /\ \E r \in cluster_chunks(fChunks, fN) :
                  /\ clustered' = r.value
                  /\ kmeans' = r.kmeans
                  /\ fPc' = IF r.raised THEN "raised" ELSE "fuse_clustered"
            /\ UNCHANGED capped
    /\ UNCHANGED <<fChunks, fN, max_per_cluster, deduplicated>>
    /\ UNCHANGED <<chunkVars, idVars, tokVars, dedupVars, confVars,
                 docVars, citeVars, embedVars>>

\* fuse_retrieved_chunks, lines 211-213: the deduplicate stage
FuseDeduplicate ==
    /\ fPc = "fuse_clustered"
    /\ deduplicated' = DeduplicateEach(fChunks, clustered)
    /\ fPc' = "fuse_deduplicated"
    /\ UNCHANGED <<fChunks, fN, max_per_cluster, clustered, kmeans, capped>>
    /\ UNCHANGED <<chunkVars, idVars, tokVars, dedupVars, confVars,
                 docVars, citeVars, embedVars>>

\* fuse_retrieved_chunks, lines 215-219: the cap stage and the return
FuseCap ==
    /\ fPc = "fuse_deduplicated"
    /\ capped' = cap_chunks_per_cluster(deduplicated, max_per_cluster)
    /\ fPc' = "fused"
    /\ UNCHANGED <<fChunks, fN, max_per_cluster, clustered, kmeans,
                   deduplicated>>
    /\ UNCHANGED <<chunkVars, idVars, tokVars, dedupVars, confVars,
                 docVars, citeVars, embedVars>>

NextFusion == ClusterChunks \/ FuseCluster \/ FuseDeduplicate \/ FuseCap

SpecFusion == InitFusion /\ [][NextFusion]_vars

\* how often chunk i is a member of the clusters of m
Occurrences(m, i) ==
    LET slots == UNION {{<<l, j>> : j \in 1..Len(m[l])} : l \in DOMAIN m}
    IN  Cardinality({p \in slots : m[p[1]][p[2]] = i})

\* C9: the mapping cluster_chunks returns is a partition of the input: every
\* input chunk is in exactly one cluster exactly once, and the clusters hold
\* nothing else.
C9_Partition ==
    fPc = "clustered" =>
        /\ \A i \in 1..Len(fChunks) : Occurrences(clustered, i) = 1
        /\ \A l \in DOMAIN clustered : \A j \in 1..Len(clustered[l]) :
              clustered[l][j] \in 1..Len(fChunks)

\* k-means has put three chunks into two clusters
C9_Witness ==
    /\ fPc = "clustered" /\ Len(fChunks) = 3
    /\ Cardinality(DOMAIN clustered) = 2
    /\ \E l \in DOMAIN clustered : Len(clustered[l]) = 2

\* fuse_retrieved_chunks has returned
Fused == fPc = "fused"

\* C11: for a max_per_cluster that is not negative, no cluster of the
\* mapping that cap_chunks_per_cluster, and with it fuse_retrieved_chunks,
\* returns has more than max_per_cluster members.
C11_Capped ==
    (Fused /\ max_per_cluster >= 0) =>
        \A l \in DOMAIN capped : Len(capped[l]) <= max_per_cluster

\* the cap stage has cut a cluster down to max_per_cluster >= 1 members, and
\* left a smaller one whole
C11_Witness ==
    /\ Fused /\ max_per_cluster >= 1
    /\ \E l \in DOMAIN capped :
          /\ Len(deduplicated[l]) > max_per_cluster
          /\ Len(capped[l]) = max_per_cluster
    /\ \E l \in DOMAIN capped :
          Len(deduplicated[l]) < max_per_cluster /\ capped[l] = deduplicated[l]

\* cluster_chunks has come to its end, by a return or by an exception
ClusterEnded == fPc \in {"clustered", "raised"}

\* C12: with at least 2 chunks, an effective cluster count of at least 2 and
\* a chunk with no embedding or an empty one, cluster_chunks returns the one
\* cluster 0 of all chunks in input order, and the k-means step is not run.
C12_MissingEmbedding ==
    (/\ ClusterEnded
     /\ Len(fChunks) >= 2
     /\ EffectiveClusters(fChunks, fN) >= 2
     /\ \E i \in 1..Len(fChunks) : fChunks[i] = <<>>) =>
        /\ fPc = "clustered"
        /\ clustered = (0 :> [i \in 1..Len(fChunks) |-> i])
        /\ kmeans = "not_run"

\* three chunks, the last of them without an embedding, asked for in three
\* clusters, have come back as one
C12_Witness ==
    /\ fPc = "clustered" /\ Len(fChunks) = 3 /\ fN = 3
    /\ fChunks[1] /= <<>> /\ fChunks[2] /= <<>> /\ fChunks[3] = <<>>
    /\ DOMAIN clustered = {0} /\ Len(clustered[0]) = 3
    /\ kmeans = "not_run"

\* C13: for a chunk list that is not empty and any n_clusters, cluster_chunks
\* returns and does not raise; when the k-means step failed it returns the
\* one cluster 0 of all chunks.
C13_FailSoft ==
    (ClusterEnded /\ fChunks /= <<>>) =>
        /\ fPc = "clustered"
        /\ kmeans = "failed" =>
              clustered = (0 :> [i \in 1..Len(fChunks) |-> i])

\* the k-means step has failed on chunks that all have embeddings: on a
\* negative cluster count, which KMeans refuses
C13_Witness ==
    /\ fPc = "clustered" /\ kmeans = "failed"
    /\ Len(fChunks) >= 2 /\ fN < 0
    /\ \A i \in 1..Len(fChunks) : fChunks[i] /= <<>>
    /\ DOMAIN clustered = {0}

\* C14: every cluster of the mapping fuse_retrieved_chunks returns is a
\* subsequence of the input list: its chunks are chunks of the input, in the
\* order they have there.
C14_OrderKept ==
    Fused =>
        \A l \in DOMAIN capped :
            /\ \A a \in 1..Len(capped[l]) : capped[l][a] \in 1..Len(fChunks)
            /\ \A a, b \in 1..Len(capped[l]) :
                  a < b => capped[l][a] < capped[l][b]

\* a cluster that is not the first has lost a chunk to the deduplicate
\* stage, another to the cap stage, and has kept two
C14_Witness ==
    /\ Fused /\ kmeans = "labelled"
    /\ \E l \in DOMAIN capped :
          /\ l /= 0
          /\ Len(clustered[l]) > Len(deduplicated[l])
          /\ Len(deduplicated[l]) > Len(capped[l])
          /\ Len(capped[l]) = 2

\* the embeddings of cs are pairwise distinct
PairwiseDistinct(cs) ==
    \A i, j \in 1..Len(cs) : i /= j => cs[i] /= cs[j]

\* the call of the scenario: 6 chunks with pairwise distinct embeddings,
\* n_clusters = 3, max_per_cluster = 2
SixChunkCall ==
    /\ Len(fChunks) = 6 /\ PairwiseDistinct(fChunks)
    /\ \A i \in 1..Len(fChunks) : fChunks[i] /= <<>>
    /\ fN = 3 /\ max_per_cluster = 2

\* the chunks of all clusters of m together
Total(m) ==
    Cardinality(UNION {{<<l, j>> : j \in 1..Len(m[l])} : l \in DOMAIN m})

\* the labels the k-means step gave to at least one chunk
LabelsAssigned == {l \in DOMAIN clustered : clustered[l] /= <<>>}

C17_EmptyInput ==
    (fChunks = <<>> /\ fPc \in {"clustered", "fused", "raised"}) =>
        /\ fPc = "clustered" => DOMAIN clustered = {}
        /\ fPc = "fused" => DOMAIN capped = {}
        /\ fPc /= "raised"

\* fuse_retrieved_chunks has returned for an empty list, three clusters and
\* a cap of two
C17_Witness ==
    /\ Fused /\ fChunks = <<>> /\ fN = 3 /\ max_per_cluster = 2
    /\ DOMAIN capped = {}

\* C30: for a non-empty chunk list, every n_clusters and every
\* max_per_cluster >= 1, the mapping fuse_retrieved_chunks returns has at
\* least one cluster, every cluster of it is non-empty, and for
\* n_clusters >= 1 it has at most min(n_clusters, number of chunks)
\* clusters.
C30_NonEmptyClusters ==
    (Fused /\ fChunks /= <<>> /\ max_per_cluster >= 1) =>
        /\ \A l \in DOMAIN capped : capped[l] /= <<>>
        /\ Cardinality(DOMAIN capped) >= 1
        /\ fN >= 1 => Cardinality(DOMAIN capped) <= Min(fN, Len(fChunks))

\* a fusion that returned as many clusters as n_clusters allows, one of
\* them cut down to a max_per_cluster of 1
C30_Witness ==
    /\ Fused /\ max_per_cluster = 1 /\ fN >= 2 /\ kmeans = "labelled"
    /\ Cardinality(DOMAIN capped) = Min(fN, Len(fChunks))
    /\ \E l \in DOMAIN capped : Len(deduplicated[l]) >= 2 /\ Len(capped[l]) = 1

(***************************************************************************)
(* Calls of deduplicate_chunks                                             *)
(***************************************************************************)
\* the thresholds: the default 0.95, 0.6, 0 and -0.5
Thresholds == {<<19, 20>>, <<3, 5>>, <<0, 1>>, <<-1, 2>>}

InitDedup ==
    /\ dChunks \in ChunkLists
    /\ dThreshold \in Thresholds
    /\ dPc = "start"
    /\ deduped = <<>>
    /\ ChunkIdle /\ IdIdle /\ TokIdle /\ FusionIdle /\ ConfIdle
    /\ DocIdle /\ CiteIdle /\ EmbedIdle

DeduplicateChunks ==
    /\ dPc = "start"
    /\ deduped' = deduplicate_chunks(dChunks, dThreshold)
    /\ dPc' = "deduped"
    /\ UNCHANGED <<dChunks, dThreshold, chunkVars, idVars, tokVars, fusionVars,
                   confVars,
                 docVars, citeVars, embedVars>>

NextDedup == DeduplicateChunks

SpecDedup == InitDedup /\ [][NextDedup]_vars

\* C10: deduplicate_chunks returns a list no longer than its input whose
\* first element, when the input is not empty, is the input's first element.
C10_ShorterKeepsFirst ==
    dPc = "deduped" =>
        /\ Len(deduped) <= Len(dChunks)
        /\ dChunks /= <<>> => (deduped /= <<>> /\ deduped[1] = 1)

\* a near-duplicate of the first chunk was removed, a later chunk kept
C10_Witness ==
    /\ dPc = "deduped" /\ Len(dChunks) = 3
    /\ deduped = <<1, 3>>
    /\ dChunks[2] /= dChunks[1]

\* chunk i of dChunks is in the returned list
Kept(i) == \E p \in 1..Len(deduped) : deduped[p] = i

\* the cosine similarity of chunks i and j of dChunks is defined and
\* strictly greater than the threshold
MoreSimilar(i, j) ==
    /\ Len(dChunks[i]) = Len(dChunks[j])
    /\ Exceeds(dChunks[i], dChunks[j], dThreshold)

\* the cosine similarity of chunks i and j of dChunks is the threshold, for
\* a threshold that is not negative
AtThreshold(i, j) ==
    LET u == dChunks[i]
        v == dChunks[j]
    IN  /\ Len(u) = Len(v) /\ dThreshold[1] >= 0
        /\ Dot(u, u) * Dot(v, v) > 0 /\ Dot(u, v) >= 0
        /\ Dot(u, v) * Dot(u, v) * dThreshold[2] * dThreshold[2]
              = dThreshold[1] * dThreshold[1] * Dot(u, u) * Dot(v, v)

\* the returned list is in list order, and chunk i is in it if and only if
\* no earlier chunk of it is more similar to i than the threshold
GreedyFirstWins ==
    /\ \A p, q \in 1..Len(deduped) : p < q => deduped[p] < deduped[q]
    /\ \A i \in 1..Len(dChunks) :
          Kept(i) <=> ~\E j \in 1..(i - 1) : Kept(j) /\ MoreSimilar(j, i)
    /\ \A i, j \in 1..Len(dChunks) :
          (j < i /\ Kept(j) /\ AtThreshold(j, i)
             /\ ~\E j2 \in 1..(i - 1) : Kept(j2) /\ MoreSimilar(j2, i))
          => Kept(i)

NoDuplicateLeft ==
    /\ \A p, q \in 1..Len(deduped) :
          p /= q => ~MoreSimilar(deduped[p], deduped[q])
    /\ \A i \in 1..Len(dChunks) :
          (\A p \in 1..Len(deduped) : deduped[p] /= i)
          => \E p \in 1..Len(deduped) :
                deduped[p] < i /\ MoreSimilar(deduped[p], i)

Millionths(n, d) == (n * 1000000) \div d

\* line 30: expected_min_citations: int = 4
expected_min_citations == 4

\* line 55: max_expected: int = 5
max_expected == 5

\* lines 13-24: the number of distinct files among the citations that have
\* one
count_distinct_sources(citations) ==
    Cardinality({citations[i] : i \in 1..Len(citations)} \ {""})

\* lines 43-52
compute_coverage_score(n_citations, n_subtopics) ==
    IF n_citations = 0 THEN 0
    ELSE LET citation_score ==
                 Min(Millionths(n_citations, expected_min_citations),
                     Millionths(1, 1))
             balance_score == Min(Millionths(n_subtopics, 3), Millionths(1, 1))
         IN  (citation_score * 7 + balance_score * 3) \div 10

\* line 70: math.log(n + 1) / math.log(max_expected + 1) for max_expected =
\* 5 and n = 1, 2, ..: the quotient is 1 at n = 5, and grows with n
LogQuotient(n) ==
    LET table == <<386852, 613147, 773705, 898244, 1000000, 1086033, 1160558,
                   1226294>>
    IN  IF n <= Len(table) THEN table[n] ELSE table[Len(table)] + n

\* lines 66-70
compute_diversity_score(n_distinct_sources) ==
    IF n_distinct_sources = 0 THEN 0
    ELSE Min(LogQuotient(n_distinct_sources), Millionths(1, 1))

\* the sum of the ratios as they are, with no minimum and no clamp taken
calculate_confidence_Unsaturated(n_subtopics, has_limitations, citations) ==
    IF citations = <<>> THEN Millionths(1, 10)
    ELSE (((Millionths(Len(citations), expected_min_citations) * 7
              + Millionths(n_subtopics, 3) * 3) * 4) \div 100)
         + (IF count_distinct_sources(citations) = 0 THEN 0
            ELSE (LogQuotient(count_distinct_sources(citations)) * 4) \div 10)
         + Millionths(2, 10)

\* lines 108-124: the weighted combination, the penalty and the clamp
Score(coverage, diversity, has_limitations) ==
    LET combined == (coverage * 4) \div 10 + (diversity * 4) \div 10
                    + Millionths(2, 10)
        penalized == IF has_limitations THEN (combined * 9) \div 10
                     ELSE combined
    IN  Max(0, Min(Millionths(1, 1), penalized))

\* the score of no evidence is computed like any other
calculate_confidence_NoFloor(n_subtopics, has_limitations, citations) ==
    Score(compute_coverage_score(Len(citations), n_subtopics),
          compute_diversity_score(count_distinct_sources(citations)),
          has_limitations)

\* lines 100-131, for a response with n_subtopics subtopics
calculate_confidence(n_subtopics, has_limitations, citations) ==
    LET n_citations == Len(citations)
        n_sources == count_distinct_sources(citations)
    IN  IF n_citations = 0 THEN Millionths(1, 10)
        ELSE Score(compute_coverage_score(n_citations, n_subtopics),
                   compute_diversity_score(n_sources),
                   has_limitations)

\* the files of the citations; "" is a citation with no file
Files == {"", "a", "b"}

\* the longest of the short citation lists, and the largest number of
\* subtopics
MaxCitations == 4
MaxSubtopics == 4

\* the citation lists: the short ones, and lists of five, six and seven
\* citations of five and six files
CitationLists ==
    SeqsUpTo(Files, MaxCitations) \cup
    {<<"a", "b", "c", "d", "e">>,
     <<"a", "b", "c", "d", "e", "f">>,
     <<"a", "", "b", "c", "d", "e", "f">>}

InitConf ==
    /\ subtopics \in 0..MaxSubtopics
    /\ limitations \in BOOLEAN
    /\ citations_flat \in CitationLists
    /\ confidence = -1
    /\ ChunkIdle /\ IdIdle /\ TokIdle /\ FusionIdle /\ DedupIdle
    /\ DocIdle /\ CiteIdle /\ EmbedIdle

\* the call calculate_confidence(response, citations_flat)
CalculateConfidence ==
    /\ confidence = -1
    /\ confidence' = calculate_confidence(subtopics, limitations,
                                          citations_flat)
    /\ UNCHANGED <<subtopics, limitations, citations_flat>>
    /\ UNCHANGED <<chunkVars, idVars, tokVars, fusionVars, dedupVars,
                 docVars, citeVars, embedVars>>

NextConf == CalculateConfidence

SpecConf == InitConf /\ [][NextConf]_vars

\* calculate_confidence has returned
Scored == confidence /= -1

\* C18: for every response and every citation list, the value c that
\* calculate_confidence returns satisfies 0 <= c <= 1.
C18_InUnitInterval ==
    Scored => (0 <= confidence /\ confidence <= 1000000)

\* the score 1.0 is reached: six files among seven citations, one of them
\* with no file, three subtopics or more and no limitations
C18_Witness ==
    /\ Scored /\ confidence = 1000000
    /\ Len(citations_flat) = 7 /\ subtopics >= 3 /\ ~limitations
    /\ \E i \in 1..Len(citations_flat) : citations_flat[i] = ""

\* C19: with an empty citations_flat, calculate_confidence returns exactly
\* 0.1, whatever the number of subtopics and whether or not there is a
\* limitations note.
C19_Floor ==
    (Scored /\ citations_flat = <<>>) => confidence = 100000

\* no citations, subtopics and a limitations note: the floor, not 0.9 of it
C19_Witness ==
    /\ Scored /\ citations_flat = <<>> /\ subtopics >= 1 /\ limitations
    /\ confidence = 100000

(***************************************************************************)
(* extract_flat_citations (llm_summarizer.py:239-263)                      *)
(***************************************************************************)
\* the chunk id has been seen, and is not remembered
SeenAdd_Forgotten(seen, chunk_id) == seen

\* line 259: seen.add(chunk_id)
SeenAdd(seen, chunk_id) == seen \cup {chunk_id}

\* lines 254-255: a citation is taken when its chunk_id is truthy and new;
\* "" stands for a chunk_id that is missing, None or empty
IsNewCitation(citation, seen) ==
    citation.chunk_id /= "" /\ citation.chunk_id \notin seen

\* lines 253-259: the inner loop over one subtopic's citations; st holds
\* citations_flat and seen
RECURSIVE CitationLoop(_, _)
CitationLoop(cits, st) ==
    IF cits = <<>> THEN st
    ELSE LET citation == Head(cits)
         IN  IF IsNewCitation(citation, st.seen)
             THEN CitationLoop(Tail(cits),
                    [citations_flat |-> Append(st.citations_flat, citation),
                     seen |-> SeenAdd(st.seen, citation.chunk_id)])
             ELSE CitationLoop(Tail(cits), st)

\* lines 252-259: the outer loop over the subtopics
RECURSIVE SubtopicLoop(_, _)
SubtopicLoop(subs, st) ==
    IF subs = <<>> THEN st
    ELSE SubtopicLoop(Tail(subs), CitationLoop(Head(subs), st))

\* lines 249-261
extract_flat_citations(response) ==
    SubtopicLoop(response, [citations_flat |-> <<>>, seen |-> {}]).citations_flat

\* the most citations of one subtopic
MaxCites == 2

\* the citations: chunk ids "x" and "y", each cited with two different
\* (file, page), and citations with no chunk id
Citations ==
    {[chunk_id |-> "x", file |-> "a", page |-> 1],
     [chunk_id |-> "x", file |-> "b", page |-> 2],
     [chunk_id |-> "y", file |-> "a", page |-> 1],
     [chunk_id |-> "y", file |-> "b", page |-> 2],
     [chunk_id |-> "", file |-> "a", page |-> 1],
     [chunk_id |-> "", file |-> "b", page |-> 2]}

SubtopicCitations == SeqsUpTo(Citations, MaxCites)

\* responses of no subtopic, one subtopic and two subtopics
Responses ==
    {<<>>} \cup {<<a>> : a \in SubtopicCitations}
           \cup {<<a, b>> : a, b \in SubtopicCitations}

InitCite ==
    /\ cResponse \in Responses
    /\ cPc = "start"
    /\ cFlat = <<>>
    /\ ChunkIdle /\ DocIdle /\ IdIdle /\ TokIdle /\ FusionIdle /\ DedupIdle
    /\ ConfIdle /\ EmbedIdle

ExtractFlatCitations ==
    /\ cPc = "start"
    /\ cFlat' = extract_flat_citations(cResponse)
    /\ cPc' = "extracted"
    /\ UNCHANGED cResponse
    /\ UNCHANGED <<chunkVars, docVars, idVars, tokVars, fusionVars, dedupVars,
                   confVars, embedVars>>

NextCite == ExtractFlatCitations

SpecCite == InitCite /\ [][NextCite]_vars

\* the places <<subtopic, citation>> of the response that cite chunk id c
CitedAt(c) ==
    {q \in (1..Len(cResponse)) \X (1..MaxCites) :
        q[2] <= Len(cResponse[q[1]]) /\ cResponse[q[1]][q[2]].chunk_id = c}

\* place q comes before place r in the response
Precedes(q, r) == q[1] < r[1] \/ (q[1] = r[1] /\ q[2] < r[2])

\* the first place that cites c
FirstCited(c) ==
    CHOOSE q \in CitedAt(c) : \A r \in CitedAt(c) : r = q \/ Precedes(q, r)

\* C24: the list extract_flat_citations returns holds no two entries with
\* one chunk_id; every non-empty chunk_id cited in a subtopic appears exactly
\* once, with the file and page of its first citation, the entries being in
\* the order of the first citations; citations with no chunk_id are dropped.
C24_FlatCitations ==
    cPc = "extracted" =>
        /\ \A k, l \in 1..Len(cFlat) :
              k /= l => cFlat[k].chunk_id /= cFlat[l].chunk_id
        /\ \A c \in {"x", "y"} :
              CitedAt(c) /= {} =>
                  \E k \in 1..Len(cFlat) :
                      LET q == FirstCited(c)
                      IN  cFlat[k] = cResponse[q[1]][q[2]]
        /\ \A k \in 1..Len(cFlat) :
              /\ cFlat[k].chunk_id /= ""
              /\ CitedAt(cFlat[k].chunk_id) /= {}
        /\ \A k, l \in 1..Len(cFlat) :
              k < l => Precedes(FirstCited(cFlat[k].chunk_id),
                                FirstCited(cFlat[l].chunk_id))

\* a response that cites one chunk id in two subtopics with different file
\* and page, a second chunk id, and a citation with no chunk id
C24_Witness ==
    /\ cPc = "extracted"
    /\ Len(cFlat) = 2
    /\ CitedAt("") /= {}
    /\ \E q, r \in CitedAt("x") :
          q[1] /= r[1] /\ cResponse[q[1]][q[2]] /= cResponse[r[1]][r[2]]

(***************************************************************************)
(* embed_texts (embedding.py:44-184)                                       *)
(***************************************************************************)
\* a text is embedded unless it is empty, blank or not
IsValidText_NonEmpty(t) == t /= <<>>

\* line 76: `if text and text.strip()`
IsValidText(t) == t /= <<>> /\ Strip(t) /= <<>>

\* lines 73-80: valid_texts, the stripped texts that are not blank
RECURSIVE ValidTexts(_)
ValidTexts(ts) ==
    IF ts = <<>> THEN <<>>
    ELSE IF IsValidText(Head(ts))
         THEN <<Strip(Head(ts))>> \o ValidTexts(Tail(ts))
         ELSE ValidTexts(Tail(ts))

\* lines 73-80: valid_indices, the 1-based positions of those texts
ValidIndices(ts) == SelectSeq([i \in 1..Len(ts) |-> i],
                              LAMBDA i : IsValidText(ts[i]))

\* the embedding the API returns for a text: it is known by the text it is
\* the embedding of
Embedding(t) == [of |-> t]

\* line 99: batch_texts = valid_texts[batch_idx:batch_idx + batch_size]
BatchTexts(vt, b, size) == SubSeq(vt, b + 1, Min(b + size, Len(vt)))

\* what a call of client.embeddings.create can come to: the embeddings of
\* the batch in order, a response with another number of embeddings, a
\* RateLimitError, another OpenAIError, any other exception
ApiOutcomes == {"ok", "mismatch", "rate_limit", "api_error", "other"}

\* a failed call is retried whatever the attempt
CanRetry_Always(att, retries) == TRUE

\* lines 141, 153: `if attempt < max_retries - 1`
CanRetry(att, retries) == att < retries - 1

\* lines 176-182: the embeddings put back at the positions of their texts,
\* None elsewhere, and the None entries filtered out
FinalEmbeddings(ts, embs) ==
    LET vi == ValidIndices(ts)
        n == Min(Len(vi), Len(embs))
        final == [i \in 1..Len(ts) |->
                    IF \E k \in 1..n : vi[k] = i
                    THEN <<embs[CHOOSE k \in 1..n : vi[k] = i]>>
                    ELSE <<>>]
        filled == SelectSeq(final, LAMBDA e : e /= <<>>)
    IN  [k \in 1..Len(filled) |-> filled[k][1]]

\* the most texts of a call
MaxTexts == 3

\* the texts: empty, blank, a word, a word with whitespace around it
EmbedInputs == {<<>>, <<SP>>, <<"a">>, <<SP, "b", NL>>}

BatchSizes == {1, 2}

RetryCounts == {0, 1, 2}

\* the call embed_texts(texts, batch_size, max_retries), with or without an
\* OPENAI_API_KEY
InitEmbed ==
    /\ eTexts \in SeqsUpTo(EmbedInputs, MaxTexts)
    /\ eBatchSize \in BatchSizes
    /\ eMaxRetries \in RetryCounts
    /\ eHasKey \in BOOLEAN
    /\ ePc = "start"
    /\ valid_texts = <<>> /\ batch_idx = 0 /\ attempt = 0
    /\ all_embeddings = <<>> /\ api_log = <<>> /\ eOut = <<>>
    /\ ChunkIdle /\ DocIdle /\ IdIdle /\ TokIdle /\ FusionIdle /\ DedupIdle
    /\ ConfIdle /\ CiteIdle

\* lines 69-95: the early returns, the filter, the client
EmbedBegin ==
    /\ ePc = "start"
    /\ IF eTexts = <<>> \/ ValidTexts(eTexts) = <<>>
       THEN ePc' = "returned" /\ valid_texts' = <<>>
       ELSE IF ~eHasKey
            THEN ePc' = "raised" /\ valid_texts' = ValidTexts(eTexts)
            ELSE ePc' = "attempt" /\ valid_texts' = ValidTexts(eTexts)
    /\ batch_idx' = 0 /\ attempt' = 0
    /\ all_embeddings' = <<>> /\ eOut' = <<>>
    /\ UNCHANGED <<eTexts, eBatchSize, eMaxRetries, eHasKey, api_log>>
    /\ UNCHANGED <<chunkVars, docVars, idVars, tokVars, fusionVars, dedupVars,
                   confVars, citeVars>>

\* lines 107-165: one attempt of the batch at batch_idx
EmbedAttempt ==
    /\ ePc = "attempt"
    /\ batch_idx < Len(valid_texts)
    /\ attempt < eMaxRetries
    /\ \E outcome \in ApiOutcomes :
          /\ api_log' = Append(api_log, <<batch_idx, attempt, outcome>>)
          /\ IF outcome = "ok"
             THEN LET batch_texts == BatchTexts(valid_texts, batch_idx, eBatchSize)
                  IN  /\ all_embeddings' = all_embeddings \o
                            [k \in 1..Len(batch_texts) |-> Embedding(batch_texts[k])]
                      /\ batch_idx' = batch_idx + eBatchSize
                      /\ attempt' = 0
                      /\ ePc' = "attempt"
             ELSE IF outcome \in {"rate_limit", "api_error"}
                     /\ CanRetry(attempt, eMaxRetries)
                  THEN /\ attempt' = attempt + 1
                       /\ ePc' = "attempt"
                       /\ UNCHANGED <<all_embeddings, batch_idx>>
                  ELSE /\ ePc' = "raised"
                       /\ UNCHANGED <<all_embeddings, batch_idx, attempt>>
    /\ UNCHANGED <<eTexts, eBatchSize, eMaxRetries, eHasKey, valid_texts, eOut>>
    /\ UNCHANGED <<chunkVars, docVars, idVars, tokVars, fusionVars, dedupVars,
                   confVars, citeVars>>

\* line 107: range(max_retries) is used up without a break or a raise; the
\* for loop of line 97 goes on to the next batch
EmbedNoAttemptLeft ==
    /\ ePc = "attempt"
    /\ batch_idx < Len(valid_texts)
    /\ attempt >= eMaxRetries
    /\ batch_idx' = batch_idx + eBatchSize
    /\ attempt' = 0
    /\ UNCHANGED <<eTexts, eBatchSize, eMaxRetries, eHasKey, ePc, valid_texts,
                   all_embeddings, api_log, eOut>>
    /\ UNCHANGED <<chunkVars, docVars, idVars, tokVars, fusionVars, dedupVars,
                   confVars, citeVars>>

\* lines 171-184: after the last batch, the result
EmbedReturn ==
    /\ ePc = "attempt"
    /\ batch_idx >= Len(valid_texts)
    /\ eOut' = FinalEmbeddings(eTexts, all_embeddings)
    /\ ePc' = "returned"
    /\ UNCHANGED <<eTexts, eBatchSize, eMaxRetries, eHasKey, valid_texts,
                   batch_idx, attempt, all_embeddings, api_log>>
    /\ UNCHANGED <<chunkVars, docVars, idVars, tokVars, fusionVars, dedupVars,
                   confVars, citeVars>>

NextEmbed == EmbedBegin \/ EmbedAttempt \/ EmbedNoAttemptLeft \/ EmbedReturn

SpecEmbed == InitEmbed /\ [][NextEmbed]_vars

\* a text with a character that is not whitespace
HasVisible(t) == \E i \in 1..Len(t) : ~IsSpace(t[i])

\* the texts of the call that are not blank, in input order
NonBlankInputs == SelectSeq(eTexts, HasVisible)

\* C21: embed_texts returns [] for an empty list and for a list of blank
\* texts only; otherwise, when it returns with max_retries >= 1, it returns
\* one embedding per non-blank input text, in input order, blank inputs
\* left out: as many embeddings as there are non-blank inputs.
C21_OnePerNonBlank ==
    ePc = "returned" =>
        IF Len(NonBlankInputs) = 0
        THEN eOut = <<>>
        ELSE eMaxRetries >= 1 =>
                /\ Len(eOut) = Len(NonBlankInputs)
                /\ \A k \in 1..Len(eOut) :
                      eOut[k] = Embedding(Strip(NonBlankInputs[k]))

\* a return with max_retries >= 1 for a list that mixes blank and non-blank
\* texts, embedded in two batches
C21_Witness ==
    /\ ePc = "returned" /\ eMaxRetries >= 1
    /\ Len(NonBlankInputs) >= 2
    /\ Len(NonBlankInputs) < Len(eTexts)
    /\ Len(eOut) = Len(NonBlankInputs)
    /\ eBatchSize = 1

\* the k-th call of the API: its batch, its attempt, its outcome
CallBatch(k) == api_log[k][1]
CallAttempt(k) == api_log[k][2]
CallOutcome(k) == api_log[k][3]

Retriable(k) == CallOutcome(k) \in {"rate_limit", "api_error"}

\* call k is the last attempt max_retries allows
LastAttempt(k) == CallAttempt(k) = eMaxRetries - 1

\* the calls made so far obey the retry rule
RetryRule ==
    /\ \A b \in 0..Len(valid_texts) :
          Cardinality({k \in 1..Len(api_log) : CallBatch(k) = b}) <= eMaxRetries
    /\ \A k \in 1..Len(api_log) :
          /\ (Retriable(k) /\ ~LastAttempt(k)) =>
                IF k < Len(api_log)
                THEN /\ CallBatch(k + 1) = CallBatch(k)
                     /\ CallAttempt(k + 1) = CallAttempt(k) + 1
                ELSE /\ ePc = "attempt"
                     /\ batch_idx = CallBatch(k)
                     /\ attempt = CallAttempt(k) + 1
          /\ (Retriable(k) /\ LastAttempt(k)) =>
                k = Len(api_log) /\ ePc = "raised"
          /\ CallOutcome(k) \in {"mismatch", "other"} =>
                k = Len(api_log) /\ ePc = "raised"
          /\ CallOutcome(k) = "ok" =>
                \A l \in (k + 1)..Len(api_log) : CallBatch(l) > CallBatch(k)

\* a retry is due: the latest call failed with a retriable error before the
\* last attempt
RetryDue ==
    /\ api_log /= <<>>
    /\ Retriable(Len(api_log)) /\ ~LastAttempt(Len(api_log))

\* the step is another call of the API for the batch of the latest call
RetryStep ==
    /\ Len(api_log') = Len(api_log) + 1
    /\ api_log'[Len(api_log')][1] = CallBatch(Len(api_log))
    /\ api_log'[Len(api_log')][2] = CallAttempt(Len(api_log)) + 1

\* C25: each batch is sent to the API at most max_retries times; a
\* RateLimitError or OpenAIError before the last attempt is followed by
\* another attempt of the same batch; on the last attempt it is raised and
\* no later batch is attempted; any other exception, the count mismatch
\* included, is raised at once; a successful attempt ends the retries of
\* its batch.
C25_Retries == []RetryRule /\ [][RetryDue => RetryStep]_vars

\* a call that failed twice with a retriable error: retried the first
\* time, raised the second, a batch being left unsent
C25_Witness ==
    /\ ePc = "raised" /\ eMaxRetries = 2
    /\ Len(api_log) >= 2
    /\ Retriable(Len(api_log)) /\ Retriable(Len(api_log) - 1)
    /\ CallBatch(Len(api_log)) + eBatchSize < Len(valid_texts)

====
